---- MODULE Spec2Model ----
(***************************************************************************)
(* honeybee-designbuilder: the Model -> dsbXML writer                      *)
(* (src/honeybee_designbuilder/writer.py).                                 *)
(*                                                                         *)
(* The module models a Python session that calls model_to_dsbxml_element   *)
(* up to MaxCalls times on the caller's Model.  The document is kept as    *)
(* the list of its ObjectIDs records in document order, each with the      *)
(* place of the element that carries it.  Handles and identifiers are the  *)
(* integers whose decimal text the code writes; the text names a caller    *)
(* gives to rooms, faces and openings are integers below the sentinel.     *)
(* Beside it the elements are kept (tree): each Zone with its attributes   *)
(* and each Surface with its attributes, HoleIndices, Openings,            *)
(* Adjacencies and the objects it is made of.  A second specification      *)
(* (SessionSpec) repeats the call on one Model; a third (UnitSpec) has the *)
(* caller call face_to_dsbxml_element, sub_face_to_dsbxml_element and      *)
(* room_group_to_dsbxml_block directly and change the elements it got.     *)
(*                                                                         *)
(* The collaborators of the honeybee library are taken by what the writer  *)
(* relies on: Room.group_by_story and Room.group_by_adjacency partition,   *)
(* Model.reset_ids_to_integers numbers the objects from start_integer and  *)
(* returns the last number it gave, remove_degenerate_geometry and         *)
(* Room.join_adjacent_rooms end in one of their possible ways at each      *)
(* call.  Left out: a Model without rooms, shades, the vertices, and the   *)
(* ObjectIDs of the holes of a Perimeter polygon (all fields '-1').        *)
(***************************************************************************)
EXTENDS Integers, Sequences, FiniteSets, TLC

\* ---------------------------------------------------------------- bounds
MaxRooms == 3
MaxLevels == 2
MaxHoles == 1
MaxCalls == 1
\* a session of several calls on one small Model
SessionRooms == 2
SessionCalls == 3
\* direct calls of the element writers on objects the caller makes
UnitRooms == 1
UnitCalls == 2
MaxTilt == 2

\* ------------------------------------------------------ program constants
\* HANDLE_COUNTER = 1 at module load (writer.py:15) and at the final reset
HANDLE_SEED == 1
\* the '-1' every absent reference of an ObjectIDs record defaults to
SENTINEL == -1
\* the buildingHandle '0' of every record below the Building, and its handle
BUILDING_HANDLE == 0
\* angle_tolerance=1.0, the default every writer is called with
ANGLE_TOLERANCE == 1

\* ------------------------------------------------------------- sequences
RECURSIVE Flatten(_)
Flatten(ss) == IF ss = <<>> THEN <<>> ELSE Head(ss) \o Flatten(Tail(ss))

Range(s) == {s[k] : k \in DOMAIN s}

\* the members of a finite set of integers, in increasing order
SortedSeq(S) ==
    [k \in 1..Cardinality(S) |->
        CHOOSE x \in S : Cardinality({y \in S : y < x}) = k - 1]

\* ---------------------------------------------------- the caller's Model
\* The text identifier the caller gave room r (f = 0, s = 0), its face f
\* (s = 0) or the s-th sub-face of that face: distinct, and no integer text
\* the writer issues.
OriginalId(r, f, s) == 0 - (100 * r + 10 * f + s)

\* The exterior faces a room of each shape has: the type of the face, its
\* tilt in degrees, the number of its holes and, per aperture and per door,
\* the number of holes of the opening.
ShapeFaces(shape) ==
    CASE shape.kind = "box" ->
            << [type |-> "Floor", tilt |-> 180,
                holes |-> 0, apertures |-> <<>>, doors |-> <<>>] >>
      [] shape.kind = "holed" ->
            << [type |-> "RoofCeiling", tilt |-> ANGLE_TOLERANCE + shape.holes,
                holes |-> shape.holes, apertures |-> <<>>, doors |-> <<>>],
               [type |-> "Wall", tilt |-> 90,
                holes |-> 0, apertures |-> <<0>>, doors |-> <<0>>] >>
      [] shape.kind = "irregular" ->
            << [type |-> "RoofCeiling", tilt |-> ANGLE_TOLERANCE,
                holes |-> 0, apertures |-> <<1>>, doors |-> <<>>] >>

RoomShapes ==
    {[kind |-> "box", holes |-> 0], [kind |-> "irregular", holes |-> 0]}
    \cup {[kind |-> "holed", holes |-> h] : h \in 1..MaxHoles}

\* Room.horizontal_boundary succeeds on the room
HasFootprint(shape) == shape.kind # "irregular"

NoBC == [surface |-> FALSE, room |-> 0, face |-> 0]

Neighbours(r, edges) == {q \in 1..MaxRooms : q # r /\ {r, q} \in edges}

\* the position, in room r's face list, of its face against neighbour q
InteriorFaceIndex(r, q, shapes, edges) ==
    Len(ShapeFaces(shapes[r]))
        + Cardinality({x \in Neighbours(r, edges) : x <= q})

ExteriorFace(r, f, tpl) ==
    [identifier |-> OriginalId(r, f, 0),
     user_data |-> {},
     geo |-> <<r, f>>,
     type |-> tpl.type,
     tilt |-> tpl.tilt,
     holes |-> tpl.holes,
     apertures |-> [k \in 1..Len(tpl.apertures) |->
        [identifier |-> OriginalId(r, f, k), kind |-> "Aperture",
         holes |-> tpl.apertures[k]]],
     doors |-> [k \in 1..Len(tpl.doors) |->
        [identifier |-> OriginalId(r, f, Len(tpl.apertures) + k),
         kind |-> "Door", holes |-> tpl.doors[k]]],
     bc |-> NoBC]

\* the face of room r with a Surface boundary condition against room q; the
\* two faces of a pair lie in the same place (geo) and have the same type, a
\* wall or an air boundary
InteriorFace(r, q, shapes, edges) ==
    LET f == InteriorFaceIndex(r, q, shapes, edges)
        g == InteriorFaceIndex(q, r, shapes, edges)
    IN  [identifier |-> OriginalId(r, f, 0),
         user_data |-> {},
         geo |-> IF r < q THEN <<r, f>> ELSE <<q, g>>,
         type |-> IF (r + q) % 2 = 1 THEN "AirBoundary" ELSE "Wall",
         tilt |-> 90,
         holes |-> 0,
         apertures |-> <<>>,
         doors |-> <<>>,
         bc |-> [surface |-> TRUE, room |-> q, face |-> g]]

MakeRoom(r, level, shapes, edges, hasStories) ==
    LET tpls == ShapeFaces(shapes[r])
        nbrs == SortedSeq(Neighbours(r, edges))
    IN  [identifier |-> OriginalId(r, 0, 0),
         user_data |-> {<<"caller", r>>},
         level |-> level,
         story |-> IF hasStories THEN level ELSE 0,
         footprint |-> HasFootprint(shapes[r]),
         faces |-> [f \in 1..Len(tpls) |-> ExteriorFace(r, f, tpls[f])]
                   \o [k \in 1..Len(nbrs) |->
                        InteriorFace(r, nbrs[k], shapes, edges)]]

Pairs(n) == {e \in SUBSET (1..n) : Cardinality(e) = 2}

\* the Model of n rooms with the given unit system, levels, shapes and
\* solved adjacencies, with or without stories assigned
MakeModel(n, units, hasStories, levels, shapes, edges) ==
    [units |-> units,
     rooms |-> [r \in 1..n |-> MakeRoom(r, levels[r], shapes, edges, hasStories)]]

\* ------------------------------------------------------------ user_data
\* a user_data dictionary is the set of its <<key, value>> items; None has
\* no items
HasKey(ud, key) == \E p \in ud : p[1] = key
Get(ud, key) == (CHOOSE p \in ud : p[1] = key)[2]
Put(ud, key, value) == {p \in ud : p[1] # key} \cup {<<key, value>>}

\* ------------------------------------------------- grouping collaborators
\* Room.group_by_story: the rooms of each story, stories in name order
StoryNames(rooms) == SortedSeq({rooms[r].story : r \in DOMAIN rooms})

group_by_story(rooms) ==
    LET story_names == StoryNames(rooms)
    IN  [k \in 1..Len(story_names) |->
            SortedSeq({r \in DOMAIN rooms : rooms[r].story = story_names[k]})]

Adjacent(rooms, p, q) ==
    \E f \in DOMAIN rooms[p].faces :
        rooms[p].faces[f].bc.surface /\ rooms[p].faces[f].bc.room = q

RECURSIVE Connected(_, _, _)
Connected(rooms, flr, S) ==
    LET T == S \cup {q \in flr : \E p \in S : Adjacent(rooms, p, q)}
    IN  IF T = S THEN S ELSE Connected(rooms, flr, T)

\* Room.group_by_adjacency: the connected groups of a story's rooms
group_by_adjacency(rooms, flr_rooms) ==
    LET flr == Range(flr_rooms)
        comp(r) == Connected(rooms, flr, {r})
        firsts == {r \in flr : \A q \in comp(r) : r <= q}
    IN  [k \in 1..Cardinality(firsts) |-> SortedSeq(comp(SortedSeq(firsts)[k]))]

\* a faulty variant: every adjacency group appends the whole story
StoryBlocks_whole_story(flr_rooms, adj_rooms) ==
    [k \in 1..Len(adj_rooms) |-> flr_rooms]

\* the blocks one story yields (writer.py 529-536)
StoryBlocks(flr_rooms, adj_rooms) ==
    IF Len(adj_rooms) = 1 THEN <<flr_rooms>> ELSE adj_rooms

StoryBlockNames(flr_name, adj_rooms) ==
    IF Len(adj_rooms) = 1
    THEN << <<flr_name, 0>> >>
    ELSE [k \in 1..Len(adj_rooms) |-> <<flr_name, k>>]

\* block_rooms and block_names of model_to_dsbxml_element (writer.py 525-536)
BlockRooms(rooms) ==
    LET story_rooms == group_by_story(rooms)
    IN  Flatten([k \in 1..Len(story_rooms) |->
            StoryBlocks(story_rooms[k],
                        group_by_adjacency(rooms, story_rooms[k]))])

BlockNames(rooms) ==
    LET story_rooms == group_by_story(rooms)
        story_names == StoryNames(rooms)
    IN  Flatten([k \in 1..Len(story_rooms) |->
            StoryBlockNames(story_names[k],
                            group_by_adjacency(rooms, story_rooms[k]))])

\* ---------------------------------------------------- identifier reset
\* the number of identified objects of a face (itself, apertures, doors)
FaceObjects(face) == 1 + Len(face.apertures) + Len(face.doors)

RECURSIVE SumFaceObjects(_)
SumFaceObjects(faces) ==
    IF faces = <<>> THEN 0
    ELSE FaceObjects(Head(faces)) + SumFaceObjects(Tail(faces))

RoomObjects(room) == 1 + SumFaceObjects(room.faces)

RECURSIVE SumRoomObjects(_)
SumRoomObjects(rooms) ==
    IF rooms = <<>> THEN 0
    ELSE RoomObjects(Head(rooms)) + SumRoomObjects(Tail(rooms))

\* Model.reset_ids_to_integers(start_integer): rooms, then each room's faces,
\* then each face's apertures and doors get start_integer, start_integer + 1,
\* ...; the Surface boundary conditions follow the objects they name
ResetRooms(rooms, start) ==
    [r \in DOMAIN rooms |->
        LET rid == start + SumRoomObjects(SubSeq(rooms, 1, r - 1))
            fid(f) == rid + 1 + SumFaceObjects(SubSeq(rooms[r].faces, 1, f - 1))
        IN  [rooms[r] EXCEPT
               !.identifier = rid,
               !.faces = [f \in DOMAIN rooms[r].faces |->
                  [rooms[r].faces[f] EXCEPT
                     !.identifier = fid(f),
                     !.apertures = [k \in DOMAIN rooms[r].faces[f].apertures |->
                        [rooms[r].faces[f].apertures[k] EXCEPT
                            !.identifier = fid(f) + k]],
                     !.doors = [k \in DOMAIN rooms[r].faces[f].doors |->
                        [rooms[r].faces[f].doors[k] EXCEPT
                            !.identifier =
                               fid(f) + Len(rooms[r].faces[f].apertures) + k]]]]]]

\* what reset_ids_to_integers returns: the last integer it assigned
LastResetId(rooms, start) == start + SumRoomObjects(rooms) - 1

\* -------------------------------------------------------------- ObjectIDs
\* An element that carries ObjectIDs: its kind (el), the index of the
\* BuildingBlock it lies in (blk, 0 for none), the index of the Zone of that
\* block it lies in (zn, 0 for none), the body it lies in (body) and the
\* position, in that body's Surfaces container, of the Surface it is or lies
\* in (pos, -1 for none).
Element(el, blk, zn, body, pos) ==
    [el |-> el, blk |-> blk, zn |-> zn, body |-> body, pos |-> pos]

\* _object_ids (writer.py 650-663); the opening field is never passed
ObjectIds(parent, handle, building, block, zone, surface) ==
    [el |-> parent.el, blk |-> parent.blk, zn |-> parent.zn,
     body |-> parent.body, pos |-> parent.pos,
     handle |-> handle,
     buildingHandle |-> building,
     buildingBlockHandle |-> block,
     zoneHandle |-> zone,
     surfaceIndex |-> surface,
     openingIndex |-> SENTINEL]

\* _object_ids(parent, handle) with every default
BareIds(parent, handle) ==
    ObjectIds(parent, handle, SENTINEL, SENTINEL, SENTINEL, SENTINEL)

\* ------------------------------------------------------- OpeningWriter
\* the type attribute of an Opening (writer.py 30)
OpeningType_door_only(sub_face) == IF sub_face.kind = "Door" THEN "Door" ELSE "Window"

OpeningType(sub_face) == IF sub_face.kind = "Aperture" THEN "Window" ELSE "Door"

\* sub_face_to_dsbxml_element under a Surface (writer.py 29-60): the
\* ObjectIDs of the Opening's Polygon, copied from the Surface's ObjectIDs
\* as they are now, and one more on the same Polygon per hole of the opening
sub_face_to_dsbxml_element(sub_face, surface_ids) ==
    LET poly == Element("OpeningPolygon", surface_ids.blk, surface_ids.zn,
                        surface_ids.body, surface_ids.pos)
        block_handle == surface_ids.buildingBlockHandle
        zone_handle == surface_ids.zoneHandle
        surface_index == surface_ids.surfaceIndex
    IN  << ObjectIds(poly, SENTINEL, BUILDING_HANDLE,
                     block_handle, zone_handle, surface_index) >>
        \o [j \in 1..sub_face.holes |->
              ObjectIds(poly, sub_face.identifier, BUILDING_HANDLE,
                        block_handle, zone_handle, surface_index)]

\* the ObjectIDs of the Surface once its openings are written
\* (writer.py 173-175)
SealSurface(ids) ==
    [ids EXCEPT !.zoneHandle = SENTINEL, !.surfaceIndex = SENTINEL]

\* a faulty variant: the openings are written after the Surface is sealed
OpeningRecords_after_seal(face, surface_ids) ==
    Flatten([k \in 1..Len(face.apertures) |->
                sub_face_to_dsbxml_element(face.apertures[k],
                                           SealSurface(surface_ids))])
    \o Flatten([k \in 1..Len(face.doors) |->
                sub_face_to_dsbxml_element(face.doors[k],
                                           SealSurface(surface_ids))])

\* the openings of a face, apertures then doors, written against the
\* Surface's ObjectIDs (writer.py 167-172)
OpeningRecords(face, surface_ids) ==
    Flatten([k \in 1..Len(face.apertures) |->
                sub_face_to_dsbxml_element(face.apertures[k], surface_ids)])
    \o Flatten([k \in 1..Len(face.doors) |->
                sub_face_to_dsbxml_element(face.doors[k], surface_ids)])

\* ------------------------------------------------------- SurfaceWriter
\* the type attribute of a Surface (writer.py 92-97)
FaceType_at_least(face, angle_tolerance) ==
    IF face.type = "RoofCeiling"
    THEN IF face.tilt >= angle_tolerance THEN "Pitched roof" ELSE "Flat roof"
    ELSE IF face.type = "AirBoundary" THEN "Wall" ELSE face.type

FaceType(face, angle_tolerance) ==
    IF face.type = "RoofCeiling"
    THEN IF face.tilt > angle_tolerance THEN "Pitched roof" ELSE "Flat roof"
    ELSE IF face.type = "AirBoundary" THEN "Wall" ELSE face.type

\* face_id_attr (writer.py 98-106), the attributes a Surface is made with
face_id_attr(face_type) ==
    [type |-> face_type, defaultOpenings |-> "False", thickness |-> "0.0"]

\* the objects a new element at `place` is made of: the element, its
\* attribute mapping and its ObjectIDs, VertexIndices and HoleIndices
\* children, each named by the element it was made for
NewParts(place) ==
    [element |-> place, attrib |-> place, ObjectIDs |-> place,
     VertexIndices |-> place, HoleIndices |-> place]

\* a Surface element at `place`: the objects it is made of, its attributes,
\* its HoleIndices, the types of the Openings in its Openings container and
\* the types of the Adjacency elements in its Adjacencies container.
\* ET.SubElement and ET.Element copy the mapping they are given, so the
\* element has an attribute mapping of its own
SurfaceElement(place, attrib, hole_is, openings, adjacencies) ==
    [el |-> "Surface", blk |-> place.blk, zn |-> place.zn,
     body |-> place.body, pos |-> place.pos,
     parts |-> NewParts(place),
     type |-> attrib.type,
     defaultOpenings |-> attrib.defaultOpenings,
     thickness |-> attrib.thickness,
     HoleIndices |-> hole_is,
     Openings |-> openings,
     Adjacencies |-> adjacencies]

\* the Adjacency ObjectIDs of a face (writer.py 182-187)
AdjacencyIds_face_first(face, rooms, parent) ==
    IF face.bc.surface
    THEN ObjectIds(parent, SENTINEL, SENTINEL, SENTINEL,
                   rooms[face.bc.room].faces[face.bc.face].identifier,
                   rooms[face.bc.room].identifier)
    ELSE BareIds(parent, SENTINEL)

AdjacencyIds(face, rooms, parent) ==
    IF face.bc.surface
    THEN ObjectIds(parent, SENTINEL, SENTINEL, SENTINEL,
                   rooms[face.bc.room].identifier,
                   rooms[face.bc.room].faces[face.bc.face].identifier)
    ELSE BareIds(parent, SENTINEL)

\* the ObjectIDs of the adjacency Polygon (writer.py 189-194) and of its
\* PolygonHoles (writer.py 199-208)
AdjacencyPolygonIds(face, parent, block_handle, zone_handle, index) ==
    IF face.bc.surface
    THEN BareIds(parent, SENTINEL)
    ELSE ObjectIds(parent, SENTINEL, BUILDING_HANDLE,
                   block_handle, zone_handle, index)

\* face_to_dsbxml_element into a Body (writer.py 90-214).  body_ids is the
\* Body's ObjectIDs, n_surfaces the number of Surface elements its container
\* holds, counter the value of HANDLE_COUNTER.  Gives the records of the
\* Surface element in document order (surface), those of the hole Surfaces
\* appended after it (holes), the Surface element (element) and the hole
\* Surface elements (hole_elements), the index recorded in user_data
\* (dsb_face_i), the HoleIndices (hole_is) and the new HANDLE_COUNTER.
face_to_dsbxml_element(face, rooms, body_ids, n_surfaces, angle_tolerance, counter) ==
    LET dsb_face_i == n_surfaces
        face_type == FaceType(face, angle_tolerance)
        block_handle == body_ids.buildingBlockHandle
        zone_handle == body_ids.handle
        here(el, pos) == Element(el, body_ids.blk, body_ids.zn, body_ids.body, pos)
        face_obj_ids == ObjectIds(here("Surface", dsb_face_i), face.identifier,
                                  BUILDING_HANDLE, block_handle, zone_handle,
                                  dsb_face_i)
        hole_is == [j \in 1..face.holes |-> dsb_face_i + j]
        hole_surfaces ==
            [j \in 1..face.holes |->
                ObjectIds(here("Surface", hole_is[j]), counter + j - 1,
                          BUILDING_HANDLE, block_handle, SENTINEL, SENTINEL)]
    IN  [surface |->
            << SealSurface(face_obj_ids) >>
            \o OpeningRecords(face, face_obj_ids)
            \o << AdjacencyIds(face, rooms, here("Adjacency", dsb_face_i)),
                  AdjacencyPolygonIds(face, here("AdjacencyPolygon", dsb_face_i),
                                      block_handle, zone_handle, dsb_face_i) >>
            \o [j \in 1..face.holes |->
                  AdjacencyPolygonIds(face, here("AdjacencyPolygonHole", dsb_face_i),
                                      block_handle, zone_handle, hole_is[j])],
         holes |-> hole_surfaces,
         element |->
            SurfaceElement(here("Surface", dsb_face_i), face_id_attr(face_type),
                hole_is,
                [k \in 1..Len(face.apertures) |-> OpeningType(face.apertures[k])]
                \o [k \in 1..Len(face.doors) |-> OpeningType(face.doors[k])],
                <<face_type>>),
         hole_elements |->
            [j \in 1..face.holes |->
                SurfaceElement(here("Surface", hole_is[j]),
                               face_id_attr(face_type), <<>>, <<>>, <<>>)],
         dsb_face_i |-> dsb_face_i,
         hole_is |-> hole_is,
         issued |-> [j \in 1..face.holes |-> counter + j - 1],
         counter |-> counter + face.holes]

\* the container after one more face is written: acc holds the records so
\* far, the number of Surface elements in the container, the index recorded
\* per face, the handles issued and HANDLE_COUNTER; w is what
\* face_to_dsbxml_element gave
AddSurface_faces_only(acc, w) ==
    [records |-> acc.records \o w.surface \o w.holes,
     elements |-> acc.elements \o <<w.element>> \o w.hole_elements,
     n_surfaces |-> acc.n_surfaces + 1,
     dsb |-> Append(acc.dsb, w.dsb_face_i),
     issued |-> acc.issued \o w.issued,
     counter |-> w.counter]

AddSurface(acc, w) ==
    [records |-> acc.records \o w.surface \o w.holes,
     elements |-> acc.elements \o <<w.element>> \o w.hole_elements,
     n_surfaces |-> acc.n_surfaces + 1 + Len(w.holes),
     dsb |-> Append(acc.dsb, w.dsb_face_i),
     issued |-> acc.issued \o w.issued,
     counter |-> w.counter]

\* the faces of a room written one after another (writer.py 265-266)
RECURSIVE WriteFaces(_, _, _, _)
WriteFaces(faces, rooms, body_ids, acc) ==
    IF faces = <<>> THEN acc
    ELSE WriteFaces(Tail(faces), rooms, body_ids,
            AddSurface(acc,
                face_to_dsbxml_element(Head(faces), rooms, body_ids,
                    acc.n_surfaces, ANGLE_TOLERANCE, acc.counter)))

NoFaces(counter) ==
    [records |-> <<>>, elements |-> <<>>, n_surfaces |-> 0, dsb |-> <<>>,
     issued |-> <<>>, counter |-> counter]

\* ----------------------------------------------------------- ZoneWriter
\* the Surfaces of the InnerSurfaceBody: one per Surface of the Body, with a
\* deep copy of its ObjectIDs (writer.py 287-301)
InnerSurfaces(body_records) ==
    LET own == SelectSeq(body_records,
                  LAMBDA rec : rec.el = "Surface")
    IN  [k \in 1..Len(own) |-> [own[k] EXCEPT !.body = "InnerSurfaceBody"]]

\* a faulty variant: the child is appended to the second parent as it is
deepcopy_same_object(object, copy) == object

\* copy.deepcopy of an element: a new object `copy` (writer.py 290-298)
deepcopy(object, copy) == copy

\* a faulty variant: the new element is given the mapping itself
SubElementAttrib_same_mapping(attrib, own) == attrib

\* the attribute mapping of ET.SubElement(parent, tag, attrib): a mapping of
\* its own with the entries of attrib (writer.py 288)
SubElementAttrib(attrib, own) == own

\* where the clone of a Body Surface is in the InnerSurfaceBody
InnerPlace(xml_face) ==
    Element("Surface", xml_face.blk, xml_face.zn, "InnerSurfaceBody", xml_face.pos)

\* the objects the clone at `place` is made of, given those of the Body
\* Surface (writer.py 288-298)
InnerParts(parts, place) ==
    [element |-> place,
     attrib |-> SubElementAttrib(parts.attrib, place),
     ObjectIDs |-> deepcopy(parts.ObjectIDs, place),
     VertexIndices |-> deepcopy(parts.VertexIndices, place),
     HoleIndices |-> deepcopy(parts.HoleIndices, place)]

\* the Surface elements of the InnerSurfaceBody: one per Surface of the
\* Body, made with its attributes and copies of its VertexIndices and
\* HoleIndices, with empty Openings and Adjacencies (writer.py 288-301)
InnerSurfaceElements(body_elements) ==
    [k \in 1..Len(body_elements) |->
        [body_elements[k] EXCEPT
            !.body = "InnerSurfaceBody",
            !.parts = InnerParts(@, InnerPlace(body_elements[k])),
            !.Openings = <<>>,
            !.Adjacencies = <<>>]]

\* zone_id_attr (writer.py 238-243) on the Zone element zn of block blk
ZoneAttributes(room, blk, zn) ==
    [el |-> "Zone", blk |-> blk, zn |-> zn, body |-> "", pos |-> SENTINEL,
     parentZoneHandle |-> room.identifier,
     inheritedZoneHandle |-> room.identifier,
     innerSurfaceMode |-> "Approximate"]

\* the ObjectIDs of the Body of a Zone or of its InnerSurfaceBody
\* (writer.py 257 and 282)
ZoneBodyIds(room, blk, zn, body, block_handle) ==
    ObjectIds(Element("Body", blk, zn, body, SENTINEL),
              room.identifier, BUILDING_HANDLE, block_handle, SENTINEL, SENTINEL)

\* the Zone once its faces are written (w): the Body, then the
\* InnerSurfaceBody copied from it (writer.py 277-303)
ZoneElement(room, blk, zn, block_handle, w) ==
    [records |-> << ZoneBodyIds(room, blk, zn, "Body", block_handle) >>
                 \o w.records
                 \o << ZoneBodyIds(room, blk, zn, "InnerSurfaceBody", block_handle) >>
                 \o InnerSurfaces(w.records),
     elements |-> << ZoneAttributes(room, blk, zn) >>
                  \o w.elements
                  \o InnerSurfaceElements(w.elements),
     dsb |-> w.dsb,
     issued |-> w.issued,
     counter |-> w.counter]

\* room_to_dsbxml_element under a BuildingBlock (writer.py 235-305); zn is
\* the position of the Zone in the block's Zones
room_to_dsbxml_element(room, rooms, blk, zn, block_handle, counter) ==
    ZoneElement(room, blk, zn, block_handle,
        WriteFaces(room.faces, rooms,
                   ZoneBodyIds(room, blk, zn, "Body", block_handle),
                   NoFaces(counter)))

\* face.user_data['dsb_face_i'] = str(dsb_face_i) on every face of the room
\* (writer.py 121-124)
RecordFaceIndices(room, dsb) ==
    [room EXCEPT !.faces = [f \in DOMAIN room.faces |->
        [room.faces[f] EXCEPT
            !.user_data = Put(room.faces[f].user_data, "dsb_face_i", dsb[f])]]]

\* the block after one more room is written (w)
AddZone(acc, r, w) ==
    [records |-> acc.records \o w.records,
     elements |-> acc.elements \o w.elements,
     rooms |-> [acc.rooms EXCEPT ![r] = RecordFaceIndices(@, w.dsb)],
     issued |-> acc.issued \o w.issued,
     counter |-> w.counter]

\* the rooms of a group written one after another (writer.py 366-368)
RECURSIVE WriteRooms(_, _, _, _, _)
WriteRooms(room_group, k, blk, block_handle, acc) ==
    IF k > Len(room_group) THEN acc
    ELSE WriteRooms(room_group, k + 1, blk, block_handle,
            AddZone(acc, room_group[k],
                room_to_dsbxml_element(acc.rooms[room_group[k]], acc.rooms,
                                       blk, k, block_handle, acc.counter)))

\* -------------------------------------------------------- BlockAssembler
\* Face3D.is_centered_adjacent on the geometry of two faces
is_centered_adjacent(f, f2) == f.geo = f2.geo

\* the faces of the volume of a block (writer.py 334-335): those of the
\* duplicated room, or those Room.join_adjacent_rooms keeps, the faces
\* between two member rooms being dissolved.  With `moved` the join leaves
\* the first face of the volume where no face of a member room is centered.
FusedFaces(rooms, room_group, moved) ==
    LET kept == Flatten([k \in 1..Len(room_group) |->
                   SelectSeq(rooms[room_group[k]].faces,
                      LAMBDA f : Len(room_group) = 1
                                 \/ ~(f.bc.surface
                                      /\ f.bc.room \in Range(room_group)))])
    IN  IF moved THEN [kept EXCEPT ![1].geo = <<0, 0>>] ELSE kept

\* the user_data the matching loop leaves on a face of the fused volume
\* (writer.py 372-379): per room the first coincident face, the last room
\* that has one wins
RECURSIVE MatchFace(_, _, _, _, _)
MatchFace(f, ud, rooms, room_group, k) ==
    IF k > Len(room_group) THEN ud
    ELSE LET room == rooms[room_group[k]]
             hits == {i \in DOMAIN room.faces :
                         is_centered_adjacent(f, room.faces[i])}
             f2 == room.faces[CHOOSE i \in hits : \A j \in hits : i <= j]
         IN  MatchFace(f,
                IF hits = {} THEN ud
                ELSE {<<"zone_handle", room.identifier>>,
                      <<"surface_index", Get(f2.user_data, "dsb_face_i")>>},
                rooms, room_group, k + 1)

\* the faces of the fused volume made ready for its body (writer.py 370-382)
ProcessFusedFaces_last_first(fused, rooms, room_group, counter) ==
    [k \in 1..Len(fused) |->
        [fused[k] EXCEPT
            !.user_data = MatchFace(fused[k], @, rooms, room_group, 1),
            !.apertures = <<>>,
            !.doors = <<>>,
            !.identifier = counter + Len(fused) - k]]

ProcessFusedFaces(fused, rooms, room_group, counter) ==
    [k \in 1..Len(fused) |->
        [fused[k] EXCEPT
            !.user_data = MatchFace(fused[k], @, rooms, room_group, 1),
            !.apertures = <<>>,
            !.doors = <<>>,
            !.identifier = counter + k - 1]]

\* the identity fields of a fused Surface patched after it is written
\* (writer.py 399-417)
PatchFusedSurface(records, face) ==
    [k \in 1..Len(records) |->
        CASE records[k].el = "Surface" ->
                [records[k] EXCEPT !.zoneHandle = SENTINEL,
                                   !.surfaceIndex = SENTINEL]
          [] records[k].el = "Adjacency" ->
                [records[k] EXCEPT
                    !.handle = SENTINEL,
                    !.buildingHandle = SENTINEL,
                    !.buildingBlockHandle = SENTINEL,
                    !.zoneHandle = Get(face.user_data, "zone_handle"),
                    !.surfaceIndex = Get(face.user_data, "surface_index")]
          [] records[k].el = "AdjacencyPolygon" ->
                [records[k] EXCEPT
                    !.handle = SENTINEL,
                    !.buildingHandle = SENTINEL,
                    !.buildingBlockHandle = SENTINEL,
                    !.zoneHandle = SENTINEL,
                    !.surfaceIndex = SENTINEL]
          [] OTHER -> records[k]]

\* line 408 finds what the matching loop stored on the face
HasMatch(face) ==
    HasKey(face.user_data, "zone_handle") /\ HasKey(face.user_data, "surface_index")

\* the ProfileBody after one more face of the fused volume is written (w)
\* and patched; the lookup of line 408 raises on a face the matching loop
\* left without 'zone_handle'
AddFusedSurface(acc, face, w) ==
    [records |-> acc.records
            \o (IF HasMatch(face) THEN PatchFusedSurface(w.surface, face)
                ELSE w.surface)
            \o w.holes,
     elements |-> acc.elements
            \o << [w.element EXCEPT !.defaultOpenings = "True",
                                    !.thickness = "0.1"] >>
            \o w.hole_elements,
     n_surfaces |-> acc.n_surfaces + 1 + Len(w.holes),
     issued |-> acc.issued \o w.issued,
     counter |-> w.counter,
     raised |-> ~HasMatch(face)]

\* the faces of the fused volume written into the ProfileBody one after
\* another (writer.py 395-417), until one raises
RECURSIVE WriteProfileFaces(_, _, _, _)
WriteProfileFaces(faces, rooms, body_ids, acc) ==
    IF faces = <<>> \/ acc.raised THEN acc
    ELSE WriteProfileFaces(Tail(faces), rooms, body_ids,
            AddFusedSurface(acc, Head(faces),
                face_to_dsbxml_element(Head(faces), rooms, body_ids,
                    acc.n_surfaces, ANGLE_TOLERANCE, acc.counter)))

\* a faulty variant: the polygon is written whatever the boundary holds
HasPerimeter_always(rooms, room_group) == TRUE

\* Room.grouped_horizontal_boundary yields a polygon
HasPerimeter(rooms, room_group) ==
    \A k \in DOMAIN room_group : rooms[room_group[k]].footprint

\* the tag of the element room_group_to_dsbxml_block makes (writer.py 351-355)
BlockTag(has_building_element) ==
    IF has_building_element THEN "BuildingBlock" ELSE "Zone"

\* block_name=None and the Title written then (writer.py 457-458)
NoName == <<>>

BlockTitle(block_name, block_handle) ==
    IF block_name # NoName THEN block_name ELSE <<0, block_handle>>

Issue(handles, kind, blk) ==
    [k \in 1..Len(handles) |-> [handle |-> handles[k], kind |-> kind, blk |-> blk]]

\* what Room.join_adjacent_rooms may do on a group: give the fused volume
\* with every face where a member face is, give it with its first face
\* moved, or raise; the duplicate of a single room keeps every face
JoinOutcomes(room_group) ==
    IF Len(room_group) = 1 THEN {"exact"} ELSE {"exact", "moved", "raises"}

NoBlock ==
    [tag |-> "", handle |-> SENTINEL, children |-> <<>>, perimeter |-> 0,
     title |-> <<0, 0>>]

\* the ObjectIDs of the BuildingBlock (writer.py 358), of the Body of its
\* ProfileBody (writer.py 389) and of its Perimeter polygon (writer.py 427)
BlockIds(blk, block_handle) ==
    ObjectIds(Element("BuildingBlock", blk, 0, "", SENTINEL),
              block_handle, BUILDING_HANDLE, SENTINEL, SENTINEL, SENTINEL)

ProfileBodyIds(blk, block_handle, block_room_id) ==
    ObjectIds(Element("Body", blk, 0, "ProfileBody", SENTINEL),
              block_room_id, BUILDING_HANDLE, block_handle, SENTINEL, SENTINEL)

PerimeterIds(blk, block_handle, block_room_id, perim_handle) ==
    ObjectIds(Element("PerimeterPolygon", blk, 0, "", SENTINEL),
              perim_handle, BUILDING_HANDLE, block_handle, block_room_id,
              SENTINEL)

\* the handles issued up to the ProfileBody, in order
IssuedInBlock(blk, block_room_id, zones, faces, profile) ==
    Issue(<<block_room_id>>, "fused_volume", blk)
    \o Issue(zones.issued, "hole", blk)
    \o Issue([k \in 1..Len(faces) |-> faces[k].identifier], "fused_face", blk)
    \o Issue(profile.issued, "fused_hole", blk)

\* lines 419-461: the Perimeter and the rest of the block, after the
\* ProfileBody is written (profile)
FinishBlock(rooms, room_group, block_handle, blk, block_name, block_room_id, zones, faces, profile) ==
    IF profile.raised
    THEN [error |-> "lookup", records |-> <<>>, elements |-> <<>>,
          rooms |-> zones.rooms,
          issued |-> IssuedInBlock(blk, block_room_id, zones, faces, profile),
          counter |-> profile.counter, block |-> NoBlock]
    ELSE [error |-> "none",
          records |-> << BlockIds(blk, block_handle) >> \o zones.records
                \o << ProfileBodyIds(blk, block_handle, block_room_id) >>
                \o profile.records
                \o (IF HasPerimeter(rooms, room_group)
                    THEN << PerimeterIds(blk, block_handle, block_room_id,
                                         profile.counter) >>
                    ELSE <<>>),
          elements |-> zones.elements \o profile.elements,
          rooms |-> zones.rooms,
          issued |-> IssuedInBlock(blk, block_room_id, zones, faces, profile)
                \o (IF HasPerimeter(rooms, room_group)
                    THEN Issue(<<profile.counter>>, "perimeter", blk)
                    ELSE <<>>),
          counter |-> profile.counter
                + (IF HasPerimeter(rooms, room_group) THEN 1 ELSE 0),
          block |-> [tag |-> BlockTag(blk # 0),
                     handle |-> block_handle,
                     children |-> <<"ObjectIDs", "ComponentBlocks", "CFDFans",
                        "AssemblyInstances", "ProfileOutlines", "VoidBodies",
                        "Zones", "ProfileBody", "Perimeter",
                        "InternalPartitions", "BaseProfileBody", "Attributes">>,
                     perimeter |-> IF HasPerimeter(rooms, room_group) THEN 1 ELSE 0,
                     title |-> BlockTitle(block_name, block_handle)]]

\* lines 384-417: the ProfileBody, after the faces of the fused volume are
\* made ready (faces)
WriteProfile(rooms, room_group, block_handle, blk, block_name, block_room_id, zones, faces) ==
    FinishBlock(rooms, room_group, block_handle, blk, block_name,
        block_room_id, zones, faces,
        WriteProfileFaces(faces, zones.rooms,
            ProfileBodyIds(blk, block_handle, block_room_id),
            [records |-> <<>>, elements |-> <<>>, n_surfaces |-> 0,
             issued |-> <<>>, counter |-> zones.counter + Len(faces),
             raised |-> FALSE]))

\* lines 370-382: the faces of the fused volume, after the rooms are
\* written (zones)
MatchFaces(rooms, room_group, block_handle, blk, block_name, block_room_id, fused, zones) ==
    WriteProfile(rooms, room_group, block_handle, blk, block_name,
        block_room_id, zones,
        ProcessFusedFaces(fused, zones.rooms, room_group, zones.counter))

\* room_group_to_dsbxml_block (writer.py 332-461) under the Building as its
\* blk-th block, or without a Building (blk = 0); `joined` is what the join
\* did.  Gives the
\* error it raises ("none", "join" or "lookup"), its ObjectIDs records in
\* document order, the element itself (block), the rooms with the face
\* indices recorded, the handles issued in order and the new
\* HANDLE_COUNTER.
room_group_to_dsbxml_block(rooms, room_group, block_handle, blk, block_name, joined, counter) ==
    IF joined = "raises"
    THEN [error |-> "join", records |-> <<>>, elements |-> <<>>,
          rooms |-> rooms, issued |-> <<>>, counter |-> counter,
          block |-> NoBlock]
    ELSE MatchFaces(rooms, room_group, block_handle, blk, block_name, counter,
            FusedFaces(rooms, room_group, joined = "moved"),
            WriteRooms(room_group, 1, blk, block_handle,
                [records |-> <<>>, elements |-> <<>>, rooms |-> rooms,
                 issued |-> <<>>, counter |-> counter + 1]))

\* ------------------------------------------------- ModelDocumentBuilder
VARIABLES
    heap,            \* the Model objects alive: heap[CallerRef] is the caller's
    HANDLE_COUNTER,  \* the module global (writer.py 15)
    pc,              \* where model_to_dsbxml_element stands; "idle" outside a call
    model,           \* the local `model`: the object the call edits (0 outside)
    block_rooms,     \* the local block_rooms (rooms by their place in model.rooms)
    block_names,     \* the local block_names
    i,               \* the block the loop of line 546 writes next, from 1
    doc,             \* the ObjectIDs records of xml_root, in document order
    tree,            \* the Zone and Surface elements of xml_root, in document order
    blocks,          \* the BuildingBlock elements of xml_root
    site,            \* the handle attribute of the Site element
    issued,          \* the handles taken from HANDLE_COUNTER in this call, in order
    outcome,         \* how the last call ended: "none", "returned" or "raised"
    error,           \* the error the last call raised
    returned,        \* the documents returned so far: [doc, blocks, site]
    snapshot,        \* the caller's Model as it was passed to the call
    counter_at_call, \* HANDLE_COUNTER when the call began
    calls            \* the number of calls that have ended

vars == <<heap, HANDLE_COUNTER, pc, model, block_rooms, block_names, i, doc,
          tree, blocks, site, issued, outcome, error, returned, snapshot,
          counter_at_call, calls>>

CallerRef == 1

NoError == [type |-> "none", units |-> ""]

\* a faulty variant: the call edits the object it was given
Duplicate_alias(ref) == ref

\* model.duplicate() (writer.py 475): a new object
Duplicate(ref) == ref + 1

\* a faulty variant: the message names the units of the converted duplicate
ReportedUnits_converted(objects, original_model, duplicate) ==
    objects[duplicate].units

\* the unit system the ValueError of line 483-485 names
ReportedUnits(objects, original_model, duplicate) == objects[original_model].units

\* model.assign_stories_by_floor_height when the Model has no story
\* (writer.py 488-489)
AssignStories(rooms) ==
    IF (\A r \in DOMAIN rooms : rooms[r].story = 0) /\ Len(rooms) # 0
    THEN [r \in DOMAIN rooms |-> [rooms[r] EXCEPT !.story = rooms[r].level]]
    ELSE rooms

\* room.user_data = {'__identifier__': room.identifier} (writer.py 491-492)
StoreIdentifiers(rooms) ==
    [r \in DOMAIN rooms |->
        [rooms[r] EXCEPT !.user_data = {<<"__identifier__", rooms[r].identifier>>}]]

\* what model.remove_degenerate_geometry(0.01) may do (writer.py 480-485)
DegenerateOutcomes == {"removed", "ValueError", "OtherError"}

\* the objects left when the call ends: its duplicate is dropped
Release(objects) == SubSeq(objects, 1, CallerRef)

\* a faulty variant: the Site handle is read after the counter is reset
SiteHandle_after_reset(counter) == HANDLE_SEED

\* the handle the Site gets (writer.py 550)
SiteHandle(counter) == counter

\* the module is loaded and the caller holds a Model of at most `most` rooms
Loaded(most) ==
    /\ \E n \in 1..most :
         \E units \in {"Meters", "Feet"}, hasStories \in BOOLEAN,
            levels \in [1..n -> 1..MaxLevels],
            shapes \in [1..n -> RoomShapes],
            edges \in SUBSET Pairs(n) :
                heap = << MakeModel(n, units, hasStories, levels, shapes, edges) >>
    /\ HANDLE_COUNTER = HANDLE_SEED
    /\ pc = "idle"
    /\ model = 0
    /\ block_rooms = <<>>
    /\ block_names = <<>>
    /\ i = 0
    /\ doc = <<>>
    /\ tree = <<>>
    /\ blocks = <<>>
    /\ site = SENTINEL
    /\ issued = <<>>
    /\ outcome = "none"
    /\ error = NoError
    /\ returned = <<>>
    /\ snapshot = heap[CallerRef]
    /\ counter_at_call = HANDLE_SEED
    /\ calls = 0

Init == Loaded(MaxRooms)

SessionInit == Loaded(SessionRooms)

\* the call ends by raising: nothing is returned, the locals are gone
Raise(objects, err, counter) ==
    /\ heap' = Release(objects)
    /\ HANDLE_COUNTER' = counter
    /\ pc' = "idle"
    /\ model' = 0
    /\ block_rooms' = <<>>
    /\ block_names' = <<>>
    /\ i' = 0
    /\ doc' = <<>>
    /\ tree' = <<>>
    /\ blocks' = <<>>
    /\ site' = SENTINEL
    /\ issued' = <<>>
    /\ outcome' = "raised"
    /\ error' = err
    /\ calls' = calls + 1
    /\ UNCHANGED returned

\* model_to_dsbxml_element, lines 473-523, on the caller's Model, the
\* removal of degenerate geometry ending as `removal`: duplicate, convert
\* the units, remove the degenerate geometry, assign stories, store the identifiers, and set up
\* the Site and the Building
Normalize(removal) ==
    /\ LET given == heap[CallerRef]
           new == Duplicate(CallerRef)
           copied == IF new = CallerRef THEN <<given>> ELSE <<given, given>>
           metric == IF copied[new].units # "Meters"
                     THEN [copied EXCEPT ![new].units = "Meters"]
                     ELSE copied
       IN  /\ snapshot' = given
           /\ counter_at_call' = HANDLE_COUNTER
           /\ IF removal = "ValueError"
              THEN Raise(metric,
                         [type |-> "ValueError",
                          units |-> ReportedUnits(metric, CallerRef, new)],
                         HANDLE_COUNTER)
              ELSE IF removal = "OtherError"
              THEN Raise(metric, [type |-> "OtherError", units |-> ""],
                         HANDLE_COUNTER)
              ELSE /\ heap' = [metric EXCEPT ![new].rooms =
                                  StoreIdentifiers(AssignStories(@))]
                   /\ model' = new
                   /\ doc' = << BareIds(Element("Building", 0, 0, "", SENTINEL),
                                        BUILDING_HANDLE) >>
                   /\ tree' = <<>>
                   /\ blocks' = <<>>
                   /\ site' = SENTINEL
                   /\ issued' = <<>>
                   /\ block_rooms' = <<>>
                   /\ block_names' = <<>>
                   /\ i' = 0
                   /\ outcome' = "none"
                   /\ error' = NoError
                   /\ pc' = "partition"
                   /\ UNCHANGED <<HANDLE_COUNTER, returned, calls>>

\* a call of model_to_dsbxml_element by the caller, who passes its Model
Call ==
    /\ pc = "idle"
    /\ calls < MaxCalls
    /\ \E removal \in DegenerateOutcomes : Normalize(removal)

\* the same call, in a session of up to SessionCalls calls
SessionCall ==
    /\ pc = "idle"
    /\ calls < SessionCalls
    /\ \E removal \in DegenerateOutcomes : Normalize(removal)

\* lines 525-536: the rooms grouped into blocks
Partition ==
    /\ pc = "partition"
    /\ block_rooms' = BlockRooms(heap[model].rooms)
    /\ block_names' = BlockNames(heap[model].rooms)
    /\ pc' = "reset"
    /\ UNCHANGED <<heap, HANDLE_COUNTER, model, i, doc, tree, blocks, site,
                   issued, outcome, error, returned, snapshot, counter_at_call,
                   calls>>

\* a faulty variant: the reset starts at the number of blocks
FirstEntityId_at_blocks(n_blocks) == n_blocks

\* a faulty variant: the counter is advanced past the blocks from wherever
\* the last call left it
FirstEntityId_unseeded(n_blocks) == HANDLE_COUNTER + n_blocks

\* HANDLE_COUNTER = len(block_rooms) + 1 (writer.py 539): the integer the
\* reset starts from
FirstEntityId(n_blocks) == n_blocks + 1

\* lines 538-542: the counter seeded above the block handles and the
\* identifiers of the Model reset to integers
ResetIdentifiers ==
    /\ pc = "reset"
    /\ LET start == FirstEntityId(Len(block_rooms))
       IN  /\ heap' = [heap EXCEPT ![model].rooms = ResetRooms(@, start)]
           /\ HANDLE_COUNTER' = LastResetId(heap[model].rooms, start) + 1
    /\ i' = 1
    /\ pc' = "blocks"
    /\ UNCHANGED <<model, block_rooms, block_names, doc, tree, blocks, site,
                   issued, outcome, error, returned, snapshot, counter_at_call,
                   calls>>

\* the number of turns of the loop over zip(block_rooms, block_names)
Turns == IF Len(block_rooms) <= Len(block_names)
         THEN Len(block_rooms) ELSE Len(block_names)

\* what a turn of the loop does with the block it got (w): the raise
\* goes through, or the block is in the document
PlaceBlock(w) ==
    IF w.error # "none"
    THEN /\ Raise([heap EXCEPT ![model].rooms = w.rooms],
                  [type |-> w.error, units |-> ""], w.counter)
         /\ UNCHANGED <<snapshot, counter_at_call>>
    ELSE /\ heap' = [heap EXCEPT ![model].rooms = w.rooms]
         /\ HANDLE_COUNTER' = w.counter
         /\ doc' = doc \o w.records
         /\ tree' = tree \o w.elements
         /\ blocks' = Append(blocks, w.block)
         /\ issued' = issued \o w.issued
         /\ i' = i + 1
         /\ UNCHANGED <<pc, model, block_rooms, block_names, site, outcome,
                        error, returned, snapshot, counter_at_call, calls>>

\* lines 544-547, one turn: room_group_to_dsbxml_block for block i
WriteBlock ==
    /\ pc = "blocks"
    /\ i <= Turns
    /\ \E joined \in JoinOutcomes(block_rooms[i]) :
          PlaceBlock(room_group_to_dsbxml_block(heap[model].rooms,
                        block_rooms[i], i, i, block_names[i], joined,
                        HANDLE_COUNTER))

\* lines 549-553: the Site handle, the counter reset, the document returned
Finish ==
    /\ pc = "blocks"
    /\ i > Turns
    /\ site' = SiteHandle(HANDLE_COUNTER)
    /\ HANDLE_COUNTER' = HANDLE_SEED
    /\ returned' = Append(returned, [doc |-> doc, tree |-> tree,
                                     blocks |-> blocks, site |-> site'])
    /\ outcome' = "returned"
    /\ heap' = Release(heap)
    /\ model' = 0
    /\ pc' = "idle"
    /\ calls' = calls + 1
    /\ UNCHANGED <<block_rooms, block_names, i, doc, tree, blocks, issued,
                   error, snapshot, counter_at_call>>

Next ==
    \/ Call
    \/ Partition
    \/ ResetIdentifiers
    \/ WriteBlock
    \/ Finish

Spec == Init /\ [][Next]_vars

SessionNext ==
    \/ SessionCall
    \/ Partition
    \/ ResetIdentifiers
    \/ WriteBlock
    \/ Finish

SessionSpec == SessionInit /\ [][SessionNext]_vars

\* ------------------------------------------------- calls of the writers
\* the Face objects a caller may pass to face_to_dsbxml_element: of every
\* type and tilt, with an aperture and a door, with or without a hole
FaceKinds == {"Wall", "Floor", "RoofCeiling", "AirBoundary"}

UnitFaces ==
    {ExteriorFace(1, 1, [type |-> t, tilt |-> a, holes |-> h,
                         apertures |-> <<0>>, doors |-> <<0>>]) :
        t \in FaceKinds, a \in 0..MaxTilt, h \in 0..1}

\* the objects a caller may pass to sub_face_to_dsbxml_element
UnitSubFaces ==
    {[identifier |-> OriginalId(1, 1, 1), kind |-> k, holes |-> h] :
        k \in {"Aperture", "Door", "Shade"}, h \in 0..MaxHoles}

\* zone_body_element=None: block_handle and zone_handle are '-1'
\* (writer.py 116-118)
NoBodyIds == BareIds(Element("", 0, 0, "", SENTINEL), SENTINEL)

\* surface_element=None: block_handle, zone_handle, surface_index are
\* '-1', '-1', '0' (writer.py 38-40)
NoSurfaceIds ==
    ObjectIds(Element("", 0, 0, "", SENTINEL), SENTINEL, SENTINEL, SENTINEL,
              SENTINEL, 0)

UnitInit ==
    /\ Loaded(UnitRooms)
    /\ heap[CallerRef].units = "Meters"
    /\ \A r \in DOMAIN heap[CallerRef].rooms : heap[CallerRef].rooms[r].story # 0

\* what a direct call leaves alone: the locals of model_to_dsbxml_element
UnitFrame ==
    UNCHANGED <<pc, model, block_rooms, block_names, i, doc, tree, blocks,
                site, issued, snapshot, counter_at_call>>

\* a direct call ends by raising
UnitRaise(type) ==
    /\ outcome' = "raised"
    /\ error' = [type |-> type, units |-> ""]
    /\ calls' = calls + 1
    /\ UNCHANGED returned

\* a direct call returns an element
UnitReturn(entry) ==
    /\ outcome' = "returned"
    /\ error' = NoError
    /\ calls' = calls + 1
    /\ returned' = Append(returned, entry)

\* the Surface made for `face` with angle_tolerance `tol`, given w from
\* face_to_dsbxml_element
FaceReturn(face, tol, in_body, w) ==
    /\ HANDLE_COUNTER' = w.counter
    /\ UnitReturn([fn |-> "face_to_dsbxml_element", given |-> face,
                   angle_tolerance |-> tol, in_body |-> in_body,
                   element |-> w.element, hole_elements |-> w.hole_elements,
                   doc |-> w.surface \o w.holes])

\* face_to_dsbxml_element(face, zone_body_element, 0, angle_tolerance) called
\* by the caller, without a Body or with the Body of a Zone made for a room
\* by room_to_dsbxml_element(room); without a Body a face with holes finds
\* no surfaces_element at line 148
FaceCall ==
    /\ pc = "idle"
    /\ calls < UnitCalls
    /\ \E face \in UnitFaces, tol \in 0..MaxTilt, in_body \in BOOLEAN :
          IF ~in_body /\ face.holes > 0
          THEN UnitRaise("NameError") /\ UNCHANGED HANDLE_COUNTER
          ELSE FaceReturn(face, tol, in_body,
                  face_to_dsbxml_element(face, heap[CallerRef].rooms,
                      IF in_body
                      THEN ZoneBodyIds(heap[CallerRef].rooms[1], 0, 0, "Body",
                                       SENTINEL)
                      ELSE NoBodyIds,
                      0, tol, HANDLE_COUNTER))
    /\ UNCHANGED heap
    /\ UnitFrame

\* sub_face_to_dsbxml_element(sub_face, surface_element) called by the
\* caller, without a Surface (under = 0) or with a Surface element a call of
\* face_to_dsbxml_element returned
SubFaceCall ==
    /\ pc = "idle"
    /\ calls < UnitCalls
    /\ \E sub_face \in UnitSubFaces, under \in 0..Len(returned) :
          /\ under # 0 => returned[under].fn = "face_to_dsbxml_element"
          /\ UnitReturn([fn |-> "sub_face_to_dsbxml_element",
                         given |-> sub_face, under |-> under,
                         type |-> OpeningType(sub_face),
                         doc |-> sub_face_to_dsbxml_element(sub_face,
                                    IF under = 0 THEN NoSurfaceIds
                                    ELSE returned[under].doc[1])])
    /\ UNCHANGED <<heap, HANDLE_COUNTER>>
    /\ UnitFrame

\* the block made for a group, given w from room_group_to_dsbxml_block
BlockReturn(building, w) ==
    /\ heap' = [heap EXCEPT ![CallerRef].rooms = w.rooms]
    /\ HANDLE_COUNTER' = w.counter
    /\ IF w.error # "none"
       THEN UnitRaise(w.error)
       ELSE UnitReturn([fn |-> "room_group_to_dsbxml_block",
                        building |-> building, block |-> w.block,
                        doc |-> w.records, tree |-> w.elements])

\* room_group_to_dsbxml_block(room_group, block_handle, building_element,
\* block_name) called by the caller on a contiguous group of its rooms, with
\* a Building element it made or without one, with or without a name
BlockCall ==
    /\ pc = "idle"
    /\ calls < UnitCalls
    /\ \E k \in DOMAIN BlockRooms(heap[CallerRef].rooms),
          building \in BOOLEAN, named \in BOOLEAN :
          \E joined \in JoinOutcomes(BlockRooms(heap[CallerRef].rooms)[k]) :
              BlockReturn(building,
                  room_group_to_dsbxml_block(heap[CallerRef].rooms,
                      BlockRooms(heap[CallerRef].rooms)[k], k,
                      IF building THEN k ELSE 0,
                      IF named THEN BlockNames(heap[CallerRef].rooms)[k]
                      ELSE NoName,
                      joined, HANDLE_COUNTER))
    /\ UnitFrame

\* the Surface elements of `elements` made of the object `part` of `target`
Holders(elements, target, part) ==
    {y \in DOMAIN elements :
        /\ elements[y].el = "Surface"
        /\ elements[y].parts[part] = target.parts[part]}

\* a change made through `target`, seen on every element that holds the
\* changed object: an attribute set, the text of HoleIndices set, a child
\* appended to Openings
EditedElement(xml_face, part) ==
    CASE part = "attrib" -> [xml_face EXCEPT !.thickness = "1.0"]
      [] part = "HoleIndices" -> [xml_face EXCEPT !.HoleIndices = Append(@, 0)]
      [] part = "element" -> [xml_face EXCEPT !.Openings = Append(@, "Window")]
      [] OTHER -> xml_face

EditedTree(elements, target, part) ==
    [y \in DOMAIN elements |->
        IF y \in Holders(elements, target, part)
        THEN EditedElement(elements[y], part)
        ELSE elements[y]]

\* a field of the ObjectIDs of `target` set: seen in the ObjectIDs of every
\* Surface that holds that ObjectIDs element
EditedIds(records, elements, target, part) ==
    [x \in DOMAIN records |->
        IF /\ part = "ObjectIDs"
           /\ records[x].el = "Surface"
           /\ \E y \in Holders(elements, target, part) :
                 /\ elements[y].blk = records[x].blk
                 /\ elements[y].zn = records[x].zn
                 /\ elements[y].body = records[x].body
                 /\ elements[y].pos = records[x].pos
        THEN [records[x] EXCEPT !.openingIndex = 0]
        ELSE records[x]]

\* the caller changes a Surface of a block it got back from
\* room_group_to_dsbxml_block: it sets an attribute, sets a field of the
\* ObjectIDs, sets the text of HoleIndices or appends a child
EditSurface ==
    /\ pc = "idle"
    /\ calls < UnitCalls
    /\ \E k \in DOMAIN returned :
          /\ returned[k].fn = "room_group_to_dsbxml_block"
          /\ \E x \in DOMAIN returned[k].tree :
                /\ returned[k].tree[x].el = "Surface"
                /\ \E part \in {"attrib", "ObjectIDs", "HoleIndices", "element"} :
                      returned' = [returned EXCEPT
                          ![k].tree = EditedTree(@, @[x], part),
                          ![k].doc = EditedIds(@, returned[k].tree,
                                               returned[k].tree[x], part)]
    /\ calls' = calls + 1
    /\ UNCHANGED <<heap, HANDLE_COUNTER, outcome, error>>
    /\ UnitFrame

UnitNext ==
    \/ FaceCall
    \/ SubFaceCall
    \/ BlockCall
    \/ EditSurface

UnitSpec == UnitInit /\ [][UnitNext]_vars

\* ---------------------------------------------------------------- claims
\* a call has returned and no other has begun
Returned == outcome = "returned" /\ pc = "idle"

\* the Body records of the Zones of a document
ZoneBodies(d) == {rec \in Range(d) : rec.el = "Body" /\ rec.body = "Body"}

\* every identifier of the rooms, faces, apertures and doors of a Model
EntityIds(rooms) ==
    {rooms[r].identifier : r \in DOMAIN rooms}
    \cup UNION {{rooms[r].faces[f].identifier : f \in DOMAIN rooms[r].faces} :
                    r \in DOMAIN rooms}
    \cup UNION {UNION {{rooms[r].faces[f].apertures[k].identifier :
                            k \in DOMAIN rooms[r].faces[f].apertures}
                       \cup {rooms[r].faces[f].doors[k].identifier :
                            k \in DOMAIN rooms[r].faces[f].doors} :
                    f \in DOMAIN rooms[r].faces} : r \in DOMAIN rooms}

\* the grouped horizontal boundary of block k is empty
EmptyBoundary(k) ==
    \E j \in DOMAIN block_rooms[k] : ~snapshot.rooms[block_rooms[k][j]].footprint

\* C1: in a returned document every ObjectIDs record whose handle is not the
\* sentinel has a handle no other record of the document has.
C1_HandlesUnique ==
    Returned =>
        \A a, b \in DOMAIN doc :
            (a # b /\ doc[a].handle # SENTINEL) => doc[a].handle # doc[b].handle

\* C2: the block list is a partition of the Model's rooms (every room in
\* exactly one block, at one place), whether a story has one adjacency group
\* or several, and there are as many block names as blocks.
C2_BlocksPartitionRooms ==
    pc \in {"reset", "blocks"} =>
        /\ \A k \in DOMAIN block_rooms :
              /\ Range(block_rooms[k]) \subseteq DOMAIN heap[model].rooms
              /\ Cardinality(Range(block_rooms[k])) = Len(block_rooms[k])
        /\ \A r \in DOMAIN heap[model].rooms :
              Cardinality({k \in DOMAIN block_rooms :
                              r \in Range(block_rooms[k])}) = 1
        /\ Len(block_names) = Len(block_rooms)

\* C2 witness: one story with a single group and one with several
C2_Witness ==
    /\ pc = "blocks"
    /\ \E k \in DOMAIN block_names : block_names[k][2] = 0
    /\ \E k \in DOMAIN block_names : block_names[k][2] = 2

\* C3: with n blocks, the blocks get the handles 1..n in partition order, and
\* every identifier the reset gave and every handle issued from
\* HANDLE_COUNTER is above n.
C3_BlockHandlesBelowEntities ==
    /\ pc = "blocks" =>
          /\ \A id \in EntityIds(heap[model].rooms) : id > Len(block_rooms)
          /\ Len(blocks) = i - 1
    /\ (pc = "blocks" \/ Returned) =>
          /\ \A k \in DOMAIN blocks : blocks[k].handle = k /\ k <= Len(block_rooms)
          /\ \A x \in DOMAIN doc :
                doc[x].el = "BuildingBlock" => doc[x].handle = doc[x].blk
          /\ \A x \in DOMAIN doc :
                (doc[x].el # "BuildingBlock" /\ doc[x].handle # SENTINEL
                 /\ doc[x].handle # BUILDING_HANDLE)
                    => doc[x].handle > Len(block_rooms)
          /\ \A k \in DOMAIN issued : issued[k].handle > Len(block_rooms)
    /\ Returned => Len(blocks) = Len(block_rooms)

\* C3 witness: a document of several blocks, with a hole Surface and a
\* perimeter among the handles issued
C3_Witness ==
    /\ Returned
    /\ Len(blocks) >= 2
    /\ \E k \in DOMAIN issued : issued[k].kind = "hole"
    /\ \E k \in DOMAIN issued : issued[k].kind = "perimeter"

\* C4: the documents returned for the same Model in one session have the
\* same records in the same order with the same handles, the same blocks and
\* the same Site handle.
C4_SameDocumentTwice ==
    \A a, b \in DOMAIN returned : returned[a] = returned[b]

\* C4 witness: two documents were returned, with handles issued in them
C4_Witness ==
    /\ Len(returned) >= 2
    /\ \E x \in DOMAIN returned[2].doc : returned[2].doc[x].el = "PerimeterPolygon"
    /\ Len(returned[2].blocks) >= 2

\* C5: when the call returns, the Site handle is the counter as the last
\* block left it, above every handle of the document, and HANDLE_COUNTER
\* is 1.
C5_SiteHandleIsFinalCounter ==
    Returned =>
        /\ issued # <<>>
        /\ site = issued[Len(issued)].handle + 1
        /\ \A x \in DOMAIN doc : doc[x].handle < site
        /\ HANDLE_COUNTER = HANDLE_SEED

\* C5 witness: a returned document of several blocks
C5_Witness ==
    /\ Returned
    /\ Len(blocks) >= 2
    /\ \E x \in DOMAIN doc : doc[x].handle + 1 = site

\* C6: HANDLE_COUNTER is 1 whenever a call has ended, by returning or by
\* raising.
C6_CounterSeededAfterCall ==
    (pc = "idle" /\ calls > 0) => HANDLE_COUNTER = HANDLE_SEED

\* C7: the caller's Model is what it was when it was passed to the call.
C7_CallerModelUnchanged == heap[CallerRef] = snapshot

\* C7 witness: a call that converted the units, assigned the stories and
\* wrote openings has returned
C7_Witness ==
    /\ Returned
    /\ snapshot.units = "Feet"
    /\ \A r \in DOMAIN snapshot.rooms : snapshot.rooms[r].story = 0
    /\ \E r \in DOMAIN snapshot.rooms :
          \E f \in DOMAIN snapshot.rooms[r].faces :
              snapshot.rooms[r].faces[f].apertures # <<>>
    /\ heap = <<snapshot>>

\* C8: a call that ends where the degenerate geometry is removed raises; a
\* ValueError names the units of the caller's Model; no document is returned
\* and HANDLE_COUNTER is as it was; another error goes through as it is.
C8_DegenerateFailure ==
    [][(pc = "idle" /\ calls' = calls + 1) =>
          /\ outcome' = "raised"
          /\ returned' = returned
          /\ doc' = <<>>
          /\ HANDLE_COUNTER' = HANDLE_COUNTER
          /\ \/ error' = [type |-> "ValueError", units |-> heap[CallerRef].units]
             \/ error' = [type |-> "OtherError", units |-> ""]]_vars

\* C8 witness: the ValueError of a Model in Feet, raised with the counter
\* away from its seed
C8_Witness ==
    /\ outcome = "raised"
    /\ error = [type |-> "ValueError", units |-> "Feet"]
    /\ HANDLE_COUNTER # HANDLE_SEED
    /\ HANDLE_COUNTER = counter_at_call

\* C9: a block whose grouped horizontal boundary is empty is written with a
\* childless Perimeter and every other fragment, no handle is issued for a
\* perimeter, and the blocks after it are written.
C9_EmptyPerimeterIsNotFatal ==
    /\ \A k \in DOMAIN blocks :
          EmptyBoundary(k) =>
              /\ blocks[k].perimeter = 0
              /\ {"Zones", "ProfileBody", "Perimeter", "InternalPartitions",
                  "BaseProfileBody", "Attributes"} \subseteq Range(blocks[k].children)
              /\ blocks[k].title = block_names[k]
              /\ \A j \in DOMAIN issued :
                    ~(issued[j].kind = "perimeter" /\ issued[j].blk = k)
              /\ \A x \in DOMAIN doc :
                    ~(doc[x].el = "PerimeterPolygon" /\ doc[x].blk = k)
    /\ pc = "blocks" => Len(blocks) = i - 1
    /\ Returned => Len(blocks) = Len(block_rooms)

\* C9 witness: a block with an empty boundary, and the block after it with
\* its perimeter
C9_Witness ==
    /\ Returned
    /\ \E k \in DOMAIN blocks :
          /\ EmptyBoundary(k)
          /\ k + 1 \in DOMAIN blocks
          /\ blocks[k + 1].perimeter = 1

\* C10: in a returned document, a buildingBlockHandle that is not the
\* sentinel is the handle of a BuildingBlock, a zoneHandle that of the Body
\* of a Zone, a surfaceIndex the position of a Surface of that Zone; and on a
\* record inside a BuildingBlock, Zone or Surface they name that block, Zone
\* and Surface.
C10_ReferencesResolve ==
    Returned =>
        \A x \in DOMAIN doc :
            /\ doc[x].buildingBlockHandle # SENTINEL =>
                  \E b \in Range(doc) :
                      /\ b.el = "BuildingBlock"
                      /\ b.handle = doc[x].buildingBlockHandle
                      /\ doc[x].blk # 0 => b.blk = doc[x].blk
            /\ doc[x].zoneHandle # SENTINEL =>
                  \E z \in ZoneBodies(doc) :
                      /\ z.handle = doc[x].zoneHandle
                      /\ doc[x].zn # 0 => (z.blk = doc[x].blk /\ z.zn = doc[x].zn)
            /\ doc[x].surfaceIndex # SENTINEL =>
                  \E z \in ZoneBodies(doc) :
                      /\ z.handle = doc[x].zoneHandle
                      /\ \E sf \in Range(doc) :
                            /\ sf.el = "Surface" /\ sf.body = "Body"
                            /\ sf.blk = z.blk /\ sf.zn = z.zn
                            /\ sf.pos = doc[x].surfaceIndex
                      /\ (doc[x].zn # 0 /\ doc[x].pos # SENTINEL)
                            => doc[x].surfaceIndex = doc[x].pos

\* the room written as Zone zn of block blk, while the blocks are written
ZoneRoom(blk, zn) == heap[model].rooms[block_rooms[blk][zn]]

\* the records of the Opening polygons under the Surface at `pos` of the
\* Body of Zone zn of block blk that carry the sentinel as handle
OpeningsAt(blk, zn, pos) ==
    {x \in DOMAIN doc :
        /\ doc[x].el = "OpeningPolygon" /\ doc[x].handle = SENTINEL
        /\ doc[x].blk = blk /\ doc[x].zn = zn /\ doc[x].pos = pos}

\* C11: every Opening under a Surface has an identity record with handle
\* '-1', buildingHandle '0', openingIndex '-1' and the block handle, zone
\* handle and Surface position its parent Surface's ObjectIDs held when it
\* was written; the parent's own zoneHandle and surfaceIndex are '-1' only
\* after all its apertures and doors are written.
C11_OpeningsCopyParentIdentity ==
    pc = "blocks" =>
        /\ \A x \in DOMAIN doc :
              doc[x].el = "OpeningPolygon" =>
                  /\ doc[x].body = "Body"
                  /\ doc[x].buildingHandle = BUILDING_HANDLE
                  /\ doc[x].openingIndex = SENTINEL
                  /\ doc[x].buildingBlockHandle = blocks[doc[x].blk].handle
                  /\ doc[x].zoneHandle = ZoneRoom(doc[x].blk, doc[x].zn).identifier
                  /\ doc[x].surfaceIndex = doc[x].pos
                  /\ doc[x].surfaceIndex # SENTINEL
        /\ \A blk \in DOMAIN blocks :
              \A zn \in DOMAIN block_rooms[blk] :
                  \A f \in DOMAIN ZoneRoom(blk, zn).faces :
                      LET face == ZoneRoom(blk, zn).faces[f]
                      IN  Cardinality(OpeningsAt(blk, zn,
                                         Get(face.user_data, "dsb_face_i")))
                              = Len(face.apertures) + Len(face.doors)
        /\ \A x \in DOMAIN doc :
              doc[x].el = "Surface" =>
                  doc[x].zoneHandle = SENTINEL /\ doc[x].surfaceIndex = SENTINEL

\* C11 witness: an aperture and a door under a Surface that is not the
\* first of its container
C11_Witness ==
    /\ pc = "blocks"
    /\ \E x \in DOMAIN doc :
          /\ doc[x].el = "OpeningPolygon"
          /\ doc[x].pos >= 1
          /\ Cardinality(OpeningsAt(doc[x].blk, doc[x].zn, doc[x].pos)) = 2

\* the calls of face_to_dsbxml_element that returned
FaceCalls == {k \in DOMAIN returned : returned[k].fn = "face_to_dsbxml_element"}

\* C12: the Surface face_to_dsbxml_element returns is of type 'Pitched roof'
\* for a roof/ceiling face tilted more than angle_tolerance, 'Flat roof' for
\* a roof/ceiling face tilted at most angle_tolerance, 'Wall' for an air
\* boundary, and the name of the face's type otherwise; its one Adjacency
\* element has the same type.
C12_SurfaceTypeClassified ==
    \A k \in FaceCalls :
        /\ (returned[k].given.type = "RoofCeiling"
              /\ returned[k].given.tilt > returned[k].angle_tolerance)
                => returned[k].element.type = "Pitched roof"
        /\ (returned[k].given.type = "RoofCeiling"
              /\ returned[k].given.tilt <= returned[k].angle_tolerance)
                => returned[k].element.type = "Flat roof"
        /\ returned[k].given.type = "AirBoundary"
                => returned[k].element.type = "Wall"
        /\ returned[k].given.type \notin {"RoofCeiling", "AirBoundary"}
                => returned[k].element.type = returned[k].given.type
        /\ returned[k].element.Adjacencies = <<returned[k].element.type>>

\* a roof tilted exactly angle_tolerance was written as a flat roof and a
\* steeper one as a pitched roof
C12_Witness ==
    /\ \E k \in FaceCalls :
          /\ returned[k].given.type = "RoofCeiling"
          /\ returned[k].given.tilt = returned[k].angle_tolerance
          /\ returned[k].element.type = "Flat roof"
    /\ \E k \in FaceCalls :
          /\ returned[k].given.tilt > returned[k].angle_tolerance
          /\ returned[k].element.type = "Pitched roof"

\* the calls of sub_face_to_dsbxml_element that returned
SubFaceCalls ==
    {k \in DOMAIN returned : returned[k].fn = "sub_face_to_dsbxml_element"}

\* C13: the Opening sub_face_to_dsbxml_element returns is of type 'Window'
\* exactly when the object passed is an Aperture and of type 'Door' for any
\* other object, whether a parent Surface element was passed or not.
C13_OpeningTypeByKind ==
    \A k \in SubFaceCalls :
        /\ returned[k].type = "Window" <=> returned[k].given.kind = "Aperture"
        /\ returned[k].given.kind # "Aperture" => returned[k].type = "Door"

\* an object that is neither an Aperture nor a Door was written under a
\* Surface element an earlier call returned
C13_Witness ==
    \E k \in SubFaceCalls :
        /\ returned[k].given.kind = "Shade"
        /\ returned[k].under \in FaceCalls
        /\ returned[k].type = "Door"

\* the Surface elements at position `pos` of the Surfaces container of
\* `body` in Zone zn of block blk
SurfacesAt(blk, zn, body, pos) ==
    {x \in DOMAIN tree :
        /\ tree[x].el = "Surface" /\ tree[x].body = body
        /\ tree[x].blk = blk /\ tree[x].zn = zn /\ tree[x].pos = pos}

\* the handles of the ObjectIDs directly under the Surface at `pos`
SurfaceHandles(blk, zn, body, pos) ==
    {doc[x].handle : x \in {y \in DOMAIN doc :
        /\ doc[y].el = "Surface" /\ doc[y].body = body
        /\ doc[y].blk = blk /\ doc[y].zn = zn /\ doc[y].pos = pos}}

\* C14: a face with k holes written into a Body has k positions in the
\* HoleIndices of its Surface, each the position of one Surface of the same
\* container that is of type 'Hole' and has a handle issued from
\* HANDLE_COUNTER.
C14_HoleSurfaces ==
    pc = "blocks" =>
        \A blk \in DOMAIN blocks :
            \A zn \in DOMAIN block_rooms[blk] :
                \A f \in DOMAIN ZoneRoom(blk, zn).faces :
                    \A x \in SurfacesAt(blk, zn, "Body",
                            Get(ZoneRoom(blk, zn).faces[f].user_data, "dsb_face_i")) :
                        /\ Len(tree[x].HoleIndices) = ZoneRoom(blk, zn).faces[f].holes
                        /\ \A j \in DOMAIN tree[x].HoleIndices :
                              /\ \E h \in SurfacesAt(blk, zn, "Body", tree[x].HoleIndices[j]) :
                                    tree[h].type = "Hole"
                              /\ \E n \in SurfaceHandles(blk, zn, "Body", tree[x].HoleIndices[j]) :
                                    n >= HANDLE_SEED /\ n < HANDLE_COUNTER

\* the ObjectIDs written inside the InnerSurfaceBody of Zone zn of block blk
InnerSurfaceBodyOf(blk, zn) ==
    {x \in DOMAIN doc :
        doc[x].body = "InnerSurfaceBody" /\ doc[x].blk = blk /\ doc[x].zn = zn}

\* C15: a Zone whose innerSurfaceMode is 'Approximate' has no
\* InnerSurfaceBody; only a Zone whose mode is 'Deflation' has one.
C15_ApproximateHasNoInnerBody ==
    \A z \in DOMAIN tree :
        tree[z].el = "Zone" =>
            /\ tree[z].innerSurfaceMode = "Approximate"
                  => InnerSurfaceBodyOf(tree[z].blk, tree[z].zn) = {}
            /\ InnerSurfaceBodyOf(tree[z].blk, tree[z].zn) # {}
                  => tree[z].innerSurfaceMode = "Deflation"

\* the ObjectIDs of element `el` under the Surface at `pos` of the Body of
\* Zone zn of block blk
UnderSurface(el, blk, zn, pos) ==
    {doc[x] : x \in {y \in DOMAIN doc :
        /\ doc[y].el = el /\ doc[y].body = "Body"
        /\ doc[y].blk = blk /\ doc[y].zn = zn /\ doc[y].pos = pos}}

\* what C16 says of the face f of the room written as Zone zn of block blk
AdjacencyAsClaimed(blk, zn, f) ==
    LET face == ZoneRoom(blk, zn).faces[f]
        pos == Get(face.user_data, "dsb_face_i")
    IN  /\ UnderSurface("Adjacency", blk, zn, pos) # {}
        /\ \A a \in UnderSurface("Adjacency", blk, zn, pos) :
              /\ a.handle = SENTINEL
              /\ a.buildingHandle = SENTINEL
              /\ a.buildingBlockHandle = SENTINEL
              /\ a.openingIndex = SENTINEL
              /\ IF face.bc.surface
                 THEN /\ face.bc.room # block_rooms[blk][zn]
                      /\ a.zoneHandle = heap[model].rooms[face.bc.room].identifier
                      /\ a.zoneHandle # ZoneRoom(blk, zn).identifier
                      /\ a.surfaceIndex =
                            heap[model].rooms[face.bc.room].faces[face.bc.face].identifier
                 ELSE /\ a.zoneHandle = SENTINEL
                      /\ a.surfaceIndex = SENTINEL
        /\ ~face.bc.surface =>
              /\ UnderSurface("AdjacencyPolygon", blk, zn, pos) # {}
              /\ \A g \in UnderSurface("AdjacencyPolygon", blk, zn, pos) :
                    /\ g.handle = SENTINEL
                    /\ g.buildingHandle = BUILDING_HANDLE
                    /\ g.buildingBlockHandle = blocks[blk].handle
                    /\ g.zoneHandle = ZoneRoom(blk, zn).identifier
                    /\ g.surfaceIndex = pos

\* C16: the Adjacency ObjectIDs of a zone Surface whose face has a Surface
\* boundary condition names the adjacent room, a room other than its own, as
\* zoneHandle and holds the adjacent face's handle as surfaceIndex, the other
\* handles being '-1'; for any other face every field is '-1' and the
\* adjacency Polygon's ObjectIDs names the face's own block, Zone and
\* position.
C16_AdjacencyNamesNeighbour ==
    pc = "blocks" =>
        \A blk \in DOMAIN blocks :
            \A zn \in DOMAIN block_rooms[blk] :
                \A f \in DOMAIN ZoneRoom(blk, zn).faces :
                    AdjacencyAsClaimed(blk, zn, f)

\* a written Zone has a face with a Surface boundary condition and one
\* without
C16_Witness ==
    /\ pc = "blocks"
    /\ \E blk \in DOMAIN blocks :
          \E zn \in DOMAIN block_rooms[blk] :
              /\ \E f \in DOMAIN ZoneRoom(blk, zn).faces :
                    ZoneRoom(blk, zn).faces[f].bc.surface
              /\ \E f \in DOMAIN ZoneRoom(blk, zn).faces :
                    ~ZoneRoom(blk, zn).faces[f].bc.surface

\* the calls of room_group_to_dsbxml_block that returned
BlockCalls ==
    {k \in DOMAIN returned : returned[k].fn = "room_group_to_dsbxml_block"}

\* C17: the element room_group_to_dsbxml_block returns is tagged
\* 'BuildingBlock', with a Building element passed and with none.
C17_BlockTagged ==
    \A k \in BlockCalls : returned[k].block.tag = "BuildingBlock"

\* C18: a face of a block's fused volume centered on no face of a member
\* room is written like any other: no call ends with the failed lookup of
\* what the matching loop stores on a face.
C18_UnmatchedFaceWritten ==
    ~(outcome = "raised" /\ error.type = "lookup")

\* the ObjectIDs of element `el` under the Surface at `pos` of the
\* ProfileBody of block blk
UnderFusedSurface(el, blk, pos) ==
    {doc[x] : x \in {y \in DOMAIN doc :
        /\ doc[y].el = el /\ doc[y].body = "ProfileBody"
        /\ doc[y].blk = blk /\ doc[y].pos = pos}}

\* the Adjacency ObjectIDs `a` names a room of the group of block blk and
\* the recorded position of a face of that room the fusion keeps
NamesMemberFace(blk, a) ==
    \E k \in DOMAIN block_rooms[blk] :
        /\ a.zoneHandle = ZoneRoom(blk, k).identifier
        /\ \E f \in DOMAIN ZoneRoom(blk, k).faces :
              /\ a.surfaceIndex = Get(ZoneRoom(blk, k).faces[f].user_data, "dsb_face_i")
              /\ ~(/\ ZoneRoom(blk, k).faces[f].bc.surface
                   /\ Len(block_rooms[blk]) > 1
                   /\ ZoneRoom(blk, k).faces[f].bc.room \in Range(block_rooms[blk]))

\* what C19 says of the Surface element tree[x], a Surface of a ProfileBody
FusedSurfaceAsClaimed(x) ==
    /\ \A sf \in UnderFusedSurface("Surface", tree[x].blk, tree[x].pos) :
          sf.zoneHandle = SENTINEL /\ sf.surfaceIndex = SENTINEL
    /\ \A a \in UnderFusedSurface("Adjacency", tree[x].blk, tree[x].pos) :
          /\ a.handle = SENTINEL
          /\ a.buildingHandle = SENTINEL
          /\ a.buildingBlockHandle = SENTINEL
          /\ NamesMemberFace(tree[x].blk, a)
    /\ \A g \in UnderFusedSurface("AdjacencyPolygon", tree[x].blk, tree[x].pos) :
          /\ g.handle = SENTINEL
          /\ g.buildingHandle = SENTINEL
          /\ g.buildingBlockHandle = SENTINEL
          /\ g.zoneHandle = SENTINEL
          /\ g.surfaceIndex = SENTINEL
    /\ tree[x].Openings = <<>>
    /\ tree[x].defaultOpenings = "True"
    /\ tree[x].thickness = "0.1"

\* C19: every Surface of the ProfileBody of a finished block has its own
\* zoneHandle and surfaceIndex at '-1', an Adjacency ObjectIDs with handle,
\* buildingHandle and buildingBlockHandle '-1' that names a room of the
\* group and the position of a face of that room, adjacency Polygon
\* ObjectIDs all '-1', no Opening, defaultOpenings 'True' and thickness
\* '0.1'.
C19_FusedSurfacesPatched ==
    pc = "blocks" =>
        \A x \in DOMAIN tree :
            (tree[x].el = "Surface" /\ tree[x].body = "ProfileBody")
                => FusedSurfaceAsClaimed(x)

\* the Surface elements of `body` in Zone zn among `elements`, in order
SurfacesOf(elements, zn, body) ==
    SelectSeq(elements,
        LAMBDA e : e.el = "Surface" /\ e.zn = zn /\ e.body = body)

\* the ObjectIDs of the Surfaces of `body` in Zone zn among `records`, in
\* order, apart from where they are
SurfaceIdsOf(records, zn, body) ==
    LET own == SelectSeq(records,
                  LAMBDA r : r.el = "Surface" /\ r.zn = zn /\ r.body = body)
    IN  [j \in DOMAIN own |-> [own[j] EXCEPT !.body = ""]]

\* the InnerSurfaceBody of every Zone of the block `entry` has one Surface
\* per Surface of the Body, in the same order, with equal attributes,
\* HoleIndices and ObjectIDs
ClonesEqual(entry) ==
    \A z \in DOMAIN entry.tree :
        entry.tree[z].el = "Zone" =>
            LET b == SurfacesOf(entry.tree, entry.tree[z].zn, "Body")
                c == SurfacesOf(entry.tree, entry.tree[z].zn, "InnerSurfaceBody")
            IN  /\ Len(b) = Len(c)
                /\ \A j \in DOMAIN b :
                      /\ b[j].pos = c[j].pos
                      /\ b[j].type = c[j].type
                      /\ b[j].defaultOpenings = c[j].defaultOpenings
                      /\ b[j].thickness = c[j].thickness
                      /\ b[j].HoleIndices = c[j].HoleIndices
                /\ SurfaceIdsOf(entry.doc, entry.tree[z].zn, "Body")
                      = SurfaceIdsOf(entry.doc, entry.tree[z].zn, "InnerSurfaceBody")

\* no Surface of a Body of the block `entry` and no Surface of an
\* InnerSurfaceBody are made of a same object
ClonesUnshared(entry) ==
    \A x, y \in DOMAIN entry.tree :
        (/\ entry.tree[x].el = "Surface" /\ entry.tree[x].body = "Body"
         /\ entry.tree[y].el = "Surface" /\ entry.tree[y].body = "InnerSurfaceBody")
            => \A part \in DOMAIN entry.tree[x].parts :
                  entry.tree[x].parts[part] # entry.tree[y].parts[part]

\* between the blocks `before` and `after`, no Surface of a Body has
\* changed together with its clone
ChangeStaysLocal(before, after) ==
    \A z \in DOMAIN before.tree :
        before.tree[z].el = "Zone" =>
            LET zn == before.tree[z].zn
            IN  \A j \in DOMAIN SurfacesOf(before.tree, zn, "Body") :
                  ~(/\ \/ SurfacesOf(before.tree, zn, "Body")[j]
                              # SurfacesOf(after.tree, zn, "Body")[j]
                        \/ SurfaceIdsOf(before.doc, zn, "Body")[j]
                              # SurfaceIdsOf(after.doc, zn, "Body")[j]
                    /\ \/ SurfacesOf(before.tree, zn, "InnerSurfaceBody")[j]
                              # SurfacesOf(after.tree, zn, "InnerSurfaceBody")[j]
                        \/ SurfaceIdsOf(before.doc, zn, "InnerSurfaceBody")[j]
                              # SurfaceIdsOf(after.doc, zn, "InnerSurfaceBody")[j])

\* C20: when room_group_to_dsbxml_block returns, the InnerSurfaceBody of
\* each Zone holds one Surface per Surface of the Body, hole Surfaces
\* included, in the same order and with equal attributes, ObjectIDs and
\* HoleIndices; a Body Surface and a clone are made of no same object, and
\* no later change to a Surface changes its clone or its original.
C20_InnerBodyIsACopy ==
    [][\A k \in DOMAIN returned' :
          returned'[k].fn = "room_group_to_dsbxml_block" =>
              /\ ClonesUnshared(returned'[k])
              /\ IF k \in DOMAIN returned
                 THEN ChangeStaysLocal(returned[k], returned'[k])
                 ELSE ClonesEqual(returned'[k])]_vars

\* a returned block has a Zone whose Body holds a hole Surface, and a
\* Surface of that Body no longer equals its clone
C20_Witness ==
    \E k \in BlockCalls :
        \E z \in DOMAIN returned[k].tree :
            /\ returned[k].tree[z].el = "Zone"
            /\ \E e \in Range(SurfacesOf(returned[k].tree, returned[k].tree[z].zn, "Body")) :
                  e.HoleIndices # <<>>
            /\ ~ClonesEqual(returned[k])

\* the Surface elements of the Surfaces container of `body` in Zone zn of
\* block blk (zn = 0: the ProfileBody), in the order of the container
ContainerSurfaces(blk, zn, body) ==
    SelectSeq(tree,
        LAMBDA e : e.el = "Surface" /\ e.blk = blk /\ e.zn = zn /\ e.body = body)

\* the ObjectIDs of those Surface elements, in the same order
ContainerIds(blk, zn, body) ==
    SelectSeq(doc,
        LAMBDA r : r.el = "Surface" /\ r.blk = blk /\ r.zn = zn /\ r.body = body)

\* the zero-based position, in its container, of the Surface that holds the
\* record doc[x]: the Surfaces of the container written up to x, less one
PositionOfOwner(x) ==
    Cardinality({y \in 1..x :
        /\ doc[y].el = "Surface" /\ doc[y].blk = doc[x].blk
        /\ doc[y].zn = doc[x].zn /\ doc[y].body = doc[x].body}) - 1

\* the positions of a container are those its Surfaces were written with,
\* and every HoleIndices lists the positions of the Surfaces that follow
\* its own, one per hole
PositionsAsRecorded(c) ==
    \A t \in DOMAIN c :
        /\ c[t].pos = t - 1
        /\ \A j \in DOMAIN c[t].HoleIndices :
              /\ c[t].HoleIndices[j] = t - 1 + j
              /\ t + j \in DOMAIN c
              /\ c[t + j].HoleIndices = <<>>
              /\ c[t + j].Adjacencies = <<>>

\* C21: in the Surfaces container of every Body, the index recorded for a
\* face (user_data 'dsb_face_i', the surfaceIndex of its openings and of
\* its self-referencing adjacency polygon) is the zero-based position of
\* the face's Surface in the container, and the j-th entry of HoleIndices
\* is the position of the Surface made for the j-th hole.
C21_IndicesArePositions ==
    pc = "blocks" =>
        /\ \A blk \in DOMAIN blocks :
              /\ PositionsAsRecorded(ContainerSurfaces(blk, 0, "ProfileBody"))
              /\ \A zn \in DOMAIN block_rooms[blk] :
                    /\ PositionsAsRecorded(ContainerSurfaces(blk, zn, "Body"))
                    /\ \A f \in DOMAIN ZoneRoom(blk, zn).faces :
                          \E t \in DOMAIN ContainerIds(blk, zn, "Body") :
                              /\ ContainerIds(blk, zn, "Body")[t].handle
                                    = ZoneRoom(blk, zn).faces[f].identifier
                              /\ Get(ZoneRoom(blk, zn).faces[f].user_data,
                                     "dsb_face_i") = t - 1
        /\ \A x \in DOMAIN doc :
              (/\ doc[x].el \in {"OpeningPolygon", "AdjacencyPolygon"}
               /\ doc[x].body = "Body"
               /\ doc[x].surfaceIndex # SENTINEL)
                  => doc[x].surfaceIndex = PositionOfOwner(x)

\* a face with openings was written into a Body after a face with a hole
C21_Witness ==
    /\ pc = "blocks"
    /\ \E x \in DOMAIN doc :
          /\ doc[x].el = "OpeningPolygon"
          /\ \E e \in Range(ContainerSurfaces(doc[x].blk, doc[x].zn, "Body")) :
                /\ e.HoleIndices # <<>>
                /\ doc[x].surfaceIndex > e.HoleIndices[Len(e.HoleIndices)]

\* where in a block a handle of each kind is issued
IssueRank(kind) ==
    CASE kind = "fused_volume" -> 1
      [] kind = "hole" -> 2
      [] kind = "fused_face" -> 3
      [] kind = "fused_hole" -> 4
      [] kind = "perimeter" -> 5

\* the records of the elements that were given the handle of issued[k]: the
\* Body of the ProfileBody, a Surface of a Zone Body or of the ProfileBody,
\* the Perimeter polygon.  The ObjectIDs copied into an InnerSurfaceBody
\* are copies of a Body Surface's and are not counted.
GivenTo(k) ==
    {x \in DOMAIN doc :
        /\ doc[x].handle = issued[k].handle
        /\ doc[x].body # "InnerSurfaceBody"}

\* the element issued[k] went to is of the kind and in the block the
\* handle was issued for
RightEntity(k, x) ==
    /\ doc[x].blk = issued[k].blk
    /\ CASE issued[k].kind = "fused_volume" ->
                doc[x].el = "Body" /\ doc[x].body = "ProfileBody"
          [] issued[k].kind = "hole" ->
                doc[x].el = "Surface" /\ doc[x].body = "Body"
          [] issued[k].kind \in {"fused_face", "fused_hole"} ->
                doc[x].el = "Surface" /\ doc[x].body = "ProfileBody"
          [] issued[k].kind = "perimeter" ->
                doc[x].el = "PerimeterPolygon"

\* the handles issued so far: one entity each, increasing from block to
\* block and, in a block, from the fused volume to the hole Surfaces of the
\* rooms, the faces of the fused volume, their hole Surfaces and the
\* perimeter, each group in the order of the document
IssuedInOrder ==
    /\ \A k \in DOMAIN issued :
          /\ Cardinality(GivenTo(k)) = 1
          /\ \A x \in GivenTo(k) : RightEntity(k, x)
          /\ issued[k].handle < HANDLE_COUNTER
    /\ \A a, b \in DOMAIN issued :
          a < b =>
              /\ issued[a].handle < issued[b].handle
              /\ issued[a].blk <= issued[b].blk
              /\ issued[a].blk = issued[b].blk =>
                    /\ IssueRank(issued[a].kind) <= IssueRank(issued[b].kind)
                    /\ issued[b].kind # "fused_volume"
                    /\ issued[a].kind # "perimeter"
              /\ (issued[a].blk = issued[b].blk /\ issued[a].kind = issued[b].kind) =>
                    \A x \in GivenTo(a), y \in GivenTo(b) :
                        \/ doc[x].zn < doc[y].zn
                        \/ doc[x].zn = doc[y].zn /\ doc[x].pos < doc[y].pos
    /\ \A blk \in DOMAIN blocks :
          \E k \in DOMAIN issued :
              /\ issued[k].blk = blk /\ issued[k].kind = "fused_volume"
              /\ \A a \in DOMAIN issued : issued[a].blk = blk => k <= a

====
